---- MODULE Spec2Model ----
(***************************************************************************)
(* State-machine model of the Yumee signaling server (src/app.py).         *)
(*                                                                         *)
(* Strings (connection ids, display names, room ids) are sequences of      *)
(* character codes, so that min/max, strip and the room-id formatting are  *)
(* computed as Python computes them.                                       *)
(*                                                                         *)
(* `sent` records what the transport delivers for the emits of the most    *)
(* recently processed event, in emit order; each entry carries the set of  *)
(* connections that receive it.  `last` names that event.  `threads` holds *)
(* the handlers that are running step by step (async_mode='threading');    *)
(* it stays empty where handlers are taken as atomic.                      *)
(*                                                                         *)
(* Python dicts iterate in insertion order.  The model keeps the two       *)
(* tables as functions and iterates them in key order; this only fixes     *)
(* the relative order of events addressed to different connections and     *)
(* the order of the entries of a user_list payload (modelled as a set).    *)
(***************************************************************************)
EXTENDS Naturals, Sequences, FiniteSets, TLC

VARIABLES conn, connected_users, active_rooms, rooms, sent, last, removed, threads

vars == <<conn, connected_users, active_rooms, rooms, sent, last, removed, threads>>

(***************************************************************************)
(* Bounds and inputs                                                       *)
(***************************************************************************)
NumSids == 3

\* "a", "b", "a_a", "a_b"
SidList == << <<97>>, <<98>>, <<97, 95, 97>>, <<97, 95, 98>> >>

Sids == { SidList[i] : i \in 1..NumSids }

\* Python None / a missing key
None == <<0>>

\* the event payload is not a mapping: data.get raises AttributeError
NotDict == <<1>>

\* the field is present but not a string (a number, null): .strip() raises
NotString == <<2>>

Anonymous == <<65, 110, 111, 110, 121, 109, 111, 117, 115>>

Someone == <<83, 111, 109, 101, 111, 110, 101>>

CallPrefix == <<99, 97, 108, 108, 95>>

Underscore == <<95>>

MaxNameLen == 30

MaxMessageLen == 1000

(***************************************************************************)
(* Python string primitives                                                *)
(***************************************************************************)
RECURSIVE StrLess(_, _)
StrLess(s, t) ==
    IF t = <<>> THEN FALSE
    ELSE IF s = <<>> THEN TRUE
    ELSE IF Head(s) = Head(t) THEN StrLess(Tail(s), Tail(t))
    ELSE Head(s) < Head(t)

\* min(a, b) returns a unless b < a; max(a, b) returns a unless b > a
StrMin(a, b) == IF StrLess(b, a) THEN b ELSE a

StrMax(a, b) == IF StrLess(a, b) THEN b ELSE a

IsSpace(ch) == ch \in {9, 10, 11, 12, 13, 28, 29, 30, 31, 32}

RECURSIVE LStrip(_)
LStrip(s) == IF s # <<>> /\ IsSpace(Head(s)) THEN LStrip(Tail(s)) ELSE s

RECURSIVE RStrip(_)
RStrip(s) ==
    IF s # <<>> /\ IsSpace(s[Len(s)]) THEN RStrip(SubSeq(s, 1, Len(s) - 1)) ELSE s

Strip(s) == RStrip(LStrip(s))

Truthy(v) == v # None /\ v # <<>>

(***************************************************************************)
(* Dict helpers                                                            *)
(***************************************************************************)
Put(f, k, v) == [x \in (DOMAIN f) \cup {k} |-> IF x = k THEN v ELSE f[x]]

Drop(f, k) == [x \in (DOMAIN f) \ {k} |-> f[x]]

EmptyDict == [x \in {} |-> None]

RECURSIVE SortedSeq(_)
SortedSeq(S) ==
    IF S = {} THEN <<>>
    ELSE LET m == CHOOSE x \in S : \A y \in S \ {x} : StrLess(x, y)
         IN  <<m>> \o SortedSeq(S \ {m})

SeqRange(s) == { s[i] : i \in 1..Len(s) }

\* [u for u in room_users if u != sid]
OtherUsers(room_users, sid) == SelectSeq(room_users, LAMBDA u : u # sid)

\* connected_users.get(sid, {}).get('name', default)
NameOr(cu, sid, default) == IF sid \in DOMAIN cu THEN cu[sid].name ELSE default

(***************************************************************************)
(* Room identifier                                                         *)
(***************************************************************************)
\* a room id built from the ids in call order, without min and max
RoomIdUnsorted(caller_sid, target_sid) ==
    CallPrefix \o caller_sid \o Underscore \o target_sid

RoomId(caller_sid, target_sid) ==
    CallPrefix \o StrMin(caller_sid, target_sid) \o Underscore
               \o StrMax(caller_sid, target_sid)

AllRoomIds == { RoomId(a, b) : a \in Sids, b \in Sids }

(***************************************************************************)
(* Transport: who receives an emit                                         *)
(***************************************************************************)
Open == { s \in Sids : conn[s] = "open" }

Members(rm, room_id) == { s \in Sids : <<room_id, s>> \in rm }

\* emit(..., room=x): x is a connection's own room or a joined room
ToRoom(rm, x) == IF x \in Sids THEN {x} \cap Open ELSE Members(rm, x)

\* emit(...) with no destination answers the connection of the event
ToSelf(sid) == {sid} \cap Open

ToAll == Open

\* a broadcast that forgets include_self=False
ToOthersInclSelf(sid) == Open

ToOthers(sid) == Open \ {sid}

Ev(ev, to, d) == [ev |-> ev, to |-> to, d |-> d]

Event(op, sid, arg) == [op |-> op, sid |-> sid, arg |-> arg]

(***************************************************************************)
(* Utility functions                                                       *)
(***************************************************************************)
\* cleanup_room on a state st = [ar, rm, rem, out]; rem collects the ids of
\* the rooms that were removed
CleanupRoom(st, room_id) ==
    IF room_id \in DOMAIN st.ar
    THEN [st EXCEPT !.rm  = @ \ { <<room_id, u>> : u \in SeqRange(st.ar[room_id]) },
                    !.ar  = Drop(@, room_id),
                    !.rem = @ \cup {room_id}]
    ELSE st

RoomsToCleanup(ar, sid) ==
    SortedSeq({ room_id \in DOMAIN ar : sid \in SeqRange(ar[room_id]) })

RECURSIVE CleanupLoop(_, _, _, _)
CleanupLoop(todo, sid, cu, st) ==
    IF todo = <<>> THEN st
    ELSE LET room_id     == Head(todo)
             other_users == OtherUsers(st.ar[room_id], sid)
             out == [i \in 1..Len(other_users) |->
                        Ev("call_ended", ToRoom(st.rm, other_users[i]),
                           [ender_name |-> NameOr(cu, sid, Someone),
                            reason |-> "disconnected"])]
         IN  CleanupLoop(Tail(todo), sid, cu,
                         CleanupRoom([st EXCEPT !.out = @ \o out], room_id))

CleanupUserRooms(sid, cu, st) == CleanupLoop(RoomsToCleanup(st.ar, sid), sid, cu, st)

UserList(cu) == { [name |-> cu[s].name, sid |-> s] : s \in DOMAIN cu }

St(out) == [ar |-> active_rooms, rm |-> rooms, rem |-> removed, out |-> out]

Commit(st) ==
    /\ active_rooms' = st.ar
    /\ rooms' = st.rm
    /\ removed' = st.rem
    /\ sent' = st.out

(***************************************************************************)
(* Init                                                                    *)
(***************************************************************************)
Init ==
    /\ conn = [s \in Sids |-> "fresh"]
    /\ connected_users = EmptyDict
    /\ active_rooms = EmptyDict
    /\ rooms = {}
    /\ sent = <<>>
    /\ last = Event("init", None, None)
    /\ removed = {}
    /\ threads = <<>>

(***************************************************************************)
(* Connection handlers                                                     *)
(***************************************************************************)
Connect(sid) ==
    /\ conn[sid] = "fresh"
    /\ conn' = [conn EXCEPT ![sid] = "open"]
    /\ sent' = << Ev("connected", {sid}, [sid |-> sid]) >>
    /\ UNCHANGED threads
    /\ last' = Event("connect", sid, None)
    /\ UNCHANGED <<connected_users, active_rooms, rooms, removed>>

DisconnectGuard(sid) == sid \in DOMAIN connected_users

\* a disconnect that forgets to delete the registry entry
UnregisterKeep(cu, sid) == cu

\* del connected_users[sid]
Unregister(cu, sid) == Drop(cu, sid)

\* history for the duplicate-disconnect case: when the event processed just
\* before was a disconnect of the same connection, the number of events that
\* one emitted; empty otherwise
Repeated(sid) ==
    IF last.op = "disconnect" /\ last.sid = sid THEN <<Len(sent)>> ELSE <<>>

\* self_recv: whether the closing link still takes the user_list broadcast.
\* The transport drops the connection from every room once the handler is done.
Disconnect(sid, self_recv) ==
    /\ conn[sid] \in {"open", "closed"}
    /\ conn[sid] = "closed" => ~self_recv
    /\ conn' = [conn EXCEPT ![sid] = "closed"]
    /\ UNCHANGED threads
    /\ last' = Event("disconnect", sid, Repeated(sid))
    /\ IF DisconnectGuard(sid)
       THEN LET cu  == Unregister(connected_users, sid)
                out == << Ev("user_left", ToOthers(sid),
                             [name |-> connected_users[sid].name, sid |-> sid]),
                          Ev("user_list",
                             ToOthers(sid) \cup (IF self_recv THEN {sid} ELSE {}),
                             [users |-> UserList(cu)]) >>
                st  == CleanupUserRooms(sid, cu, St(out))
            IN  /\ connected_users' = cu
                /\ Commit([st EXCEPT !.rm = { p \in @ : p[2] # sid }])
       ELSE /\ UNCHANGED connected_users
            /\ Commit([St(<<>>) EXCEPT !.rm = { p \in @ : p[2] # sid }])

\* names a register event may propose: " A ", "", " ", "A" * 30, "A" * 31
PaddedName == <<32, 65, 32>>

LongName == [i \in 1..(MaxNameLen + 1) |-> 65]

FullName == [i \in 1..MaxNameLen |-> 65]

ProposedNames == { PaddedName, <<>>, <<32>>, FullName, LongName, None, NotString, NotDict }

\* the call state machine reads display names but never branches on them
CoreNames == { PaddedName }

\* data.get('name', 'Anonymous').strip(), then the validation of line 109
DisplayName(name) ==
    LET display_name == Strip(IF name = None THEN Anonymous ELSE name)
    IN  IF display_name = <<>> \/ Len(display_name) > MaxNameLen
        THEN Anonymous ELSE display_name

Register(sid, name) ==
    /\ conn[sid] = "open"
    /\ UNCHANGED threads
    /\ last' = Event("register", sid, name)
    /\ UNCHANGED <<conn, active_rooms, rooms, removed>>
    /\ IF name \in {NotDict, NotString}
       THEN /\ sent' = << Ev("registered", ToSelf(sid), [success |-> FALSE]) >>
            /\ UNCHANGED connected_users
       ELSE LET display_name == DisplayName(name)
                cu == Put(connected_users, sid, [name |-> display_name, sid |-> sid])
            IN  /\ connected_users' = cu
                /\ sent' = << Ev("registered", ToSelf(sid),
                                 [success |-> TRUE, name |-> display_name, sid |-> sid]),
                              Ev("user_joined", ToOthers(sid),
                                 [name |-> display_name, sid |-> sid]),
                              Ev("user_list", ToAll, [users |-> UserList(cu)]) >>

(***************************************************************************)
(* Call control                                                            *)
(***************************************************************************)
\* a call_error emitted with broadcast=True
CallErrorBroadcast(sid, error) == Ev("call_error", ToAll, [error |-> error])

CallError(sid, error) == Ev("call_error", ToSelf(sid), [error |-> error])

\* the checks without the test for a call to oneself
CallRefusalNoSelf(caller_sid, target_sid) ==
    IF target_sid \notin DOMAIN connected_users THEN "User is offline" ELSE "none"

\* the checks of lines 180-186, made before any table is touched
CallRefusal(caller_sid, target_sid) ==
    IF target_sid \notin DOMAIN connected_users THEN "User is offline"
    ELSE IF caller_sid = target_sid THEN "Cannot call yourself"
    ELSE "none"

CallUser(caller_sid, target_sid) ==
    /\ conn[caller_sid] = "open"
    /\ UNCHANGED threads
    /\ last' = Event("call_user", caller_sid, target_sid)
    /\ UNCHANGED <<conn, connected_users, removed>>
    /\ IF CallRefusal(caller_sid, target_sid) # "none"
       THEN /\ sent' = << CallError(caller_sid, CallRefusal(caller_sid, target_sid)) >>
            /\ UNCHANGED <<active_rooms, rooms>>
       ELSE LET room_id == RoomId(caller_sid, target_sid)
                rm == rooms \cup { <<room_id, caller_sid>>, <<room_id, target_sid>> }
            IN  /\ rooms' = rm
                /\ active_rooms' = Put(active_rooms, room_id, <<caller_sid, target_sid>>)
                /\ IF caller_sid \notin DOMAIN connected_users
                   THEN \* connected_users[caller_sid] raises KeyError (line 197)
                        sent' = << CallError(caller_sid, "KeyError") >>
                   ELSE sent' =
                          << Ev("incoming_call", ToRoom(rm, target_sid),
                                [caller_sid |-> caller_sid,
                                 caller_name |-> connected_users[caller_sid].name,
                                 room_id |-> room_id]),
                             Ev("call_initiated", ToSelf(caller_sid),
                                [target_sid |-> target_sid,
                                 target_name |-> connected_users[target_sid].name,
                                 room_id |-> room_id]) >>

\* a room id an event may name: the id of a pair of connections, or none
RoomInputs == { RoomId(p[1], p[2]) : p \in { q \in Sids \X Sids : q[1] # q[2] } } \cup {None}

\* what accept_call emits; it changes no table
AcceptOut(accepter_sid, room_id) ==
    IF room_id \notin DOMAIN active_rooms
    THEN << CallError(accepter_sid, "Call no longer exists") >>
    ELSE IF OtherUsers(active_rooms[room_id], accepter_sid) = <<>>
    THEN << CallError(accepter_sid, "IndexError") >>
    ELSE IF accepter_sid \notin DOMAIN connected_users
    THEN << CallError(accepter_sid, "KeyError") >>
    ELSE << Ev("call_accepted", ToRoom(rooms, room_id),
               [accepter_sid |-> accepter_sid,
                accepter_name |-> connected_users[accepter_sid].name,
                room_id |-> room_id]) >>

AcceptCall(accepter_sid, room_id) ==
    /\ conn[accepter_sid] = "open"
    /\ UNCHANGED threads
    /\ last' = Event("accept_call", accepter_sid, room_id)
    /\ sent' = AcceptOut(accepter_sid, room_id)
    /\ UNCHANGED <<conn, connected_users, active_rooms, rooms, removed>>

\* reject_call gets past its lookups (lines 259-263) without raising
RejectProceeds(rejecter_sid, room_id) ==
    /\ room_id \in DOMAIN active_rooms
    /\ OtherUsers(active_rooms[room_id], rejecter_sid) # <<>>
    /\ rejecter_sid \in DOMAIN connected_users

RejectCall(rejecter_sid, room_id) ==
    /\ conn[rejecter_sid] = "open"
    /\ UNCHANGED threads
    /\ last' = Event("reject_call", rejecter_sid, room_id)
    /\ UNCHANGED <<conn, connected_users>>
    /\ IF RejectProceeds(rejecter_sid, room_id)
       THEN LET caller_sid == OtherUsers(active_rooms[room_id], rejecter_sid)[1]
                out == << Ev("call_rejected", ToRoom(rooms, caller_sid),
                             [rejecter_name |-> connected_users[rejecter_sid].name]) >>
            IN  Commit(CleanupRoom(St(out), room_id))
       ELSE Commit(St(<<>>))

EndCall(ender_sid, room_id) ==
    /\ conn[ender_sid] = "open"
    /\ UNCHANGED threads
    /\ last' = Event("end_call", ender_sid, room_id)
    /\ UNCHANGED <<conn, connected_users>>
    /\ IF room_id \in DOMAIN active_rooms
       THEN LET out == << Ev("call_ended", ToRoom(rooms, room_id),
                             [ender_name |-> NameOr(connected_users, ender_sid, Someone)]) >>
            IN  Commit(CleanupRoom(St(out), room_id))
       ELSE Commit(St(<<>>))

(***************************************************************************)
(* Specification of the registry and the call state machine                *)
(***************************************************************************)
Next ==
    \/ \E sid \in Sids : Connect(sid)
    \/ \E sid \in Sids, self_recv \in BOOLEAN : Disconnect(sid, self_recv)
    \/ \E sid \in Sids, name \in CoreNames : Register(sid, name)
    \/ \E sid \in Sids, target_sid \in Sids \cup {None} : CallUser(sid, target_sid)
    \/ \E sid \in Sids, room_id \in RoomInputs : AcceptCall(sid, room_id)
    \/ \E sid \in Sids, room_id \in RoomInputs : RejectCall(sid, room_id)
    \/ \E sid \in Sids, room_id \in RoomInputs : EndCall(sid, room_id)

Spec == Init /\ [][Next]_vars

TypeOK ==
    /\ conn \in [Sids -> {"fresh", "open", "closed"}]
    /\ DOMAIN connected_users \subseteq Open
    /\ DOMAIN active_rooms \subseteq AllRoomIds
    /\ \A r \in DOMAIN active_rooms : Len(active_rooms[r]) = 2
    /\ \A p \in rooms : p[2] \in Open

(***************************************************************************)
(* Relay and chat handlers                                                 *)
(***************************************************************************)
Relayed(op, sid, target_sid, body) ==
    [op |-> op, sid |-> sid, arg |-> target_sid, body |-> body]

GetUsers(sid) ==
    /\ conn[sid] = "open"
    /\ UNCHANGED threads
    /\ last' = Event("get_users", sid, None)
    /\ sent' = << Ev("user_list", ToRoom(rooms, sid), [users |-> UserList(connected_users)]) >>
    /\ UNCHANGED <<conn, connected_users, active_rooms, rooms, removed>>

\* the test of lines 315, 337, 358 and 385
TargetOnline(target_sid) == Truthy(target_sid) /\ target_sid \in DOMAIN connected_users

\* an opaque SDP / candidate blob, or none
Payloads == { <<7>>, None }

Offer(sid, target_sid, offer) ==
    /\ conn[sid] = "open"
    /\ UNCHANGED threads
    /\ last' = Relayed("offer", sid, target_sid, offer)
    /\ UNCHANGED <<conn, connected_users, active_rooms, rooms, removed>>
    /\ IF target_sid # NotDict /\ TargetOnline(target_sid) /\ sid \in DOMAIN connected_users
       THEN sent' = << Ev("offer", ToRoom(rooms, target_sid),
                          [offer |-> offer, sender_sid |-> sid,
                           sender_name |-> connected_users[sid].name]) >>
       ELSE sent' = <<>>

Answer(sid, target_sid, answer) ==
    /\ conn[sid] = "open"
    /\ UNCHANGED threads
    /\ last' = Relayed("answer", sid, target_sid, answer)
    /\ UNCHANGED <<conn, connected_users, active_rooms, rooms, removed>>
    /\ IF target_sid # NotDict /\ TargetOnline(target_sid)
       THEN sent' = << Ev("answer", ToRoom(rooms, target_sid),
                          [answer |-> answer, sender_sid |-> sid]) >>
       ELSE sent' = <<>>

IceCandidate(sid, target_sid, candidate) ==
    /\ conn[sid] = "open"
    /\ UNCHANGED threads
    /\ last' = Relayed("ice_candidate", sid, target_sid, candidate)
    /\ UNCHANGED <<conn, connected_users, active_rooms, rooms, removed>>
    /\ IF target_sid # NotDict /\ TargetOnline(target_sid)
       THEN sent' = << Ev("ice_candidate", ToRoom(rooms, target_sid),
                          [candidate |-> candidate, sender_sid |-> sid]) >>
       ELSE sent' = <<>>

\* " hi", "", " ", "x" * 1001, a missing message, a message that is no string
LongMessage == [i \in 1..(MaxMessageLen + 1) |-> 120]

Messages == { <<32, 104, 105>>, <<>>, <<32>>, LongMessage, None, NotString }

\* data.get('message', '').strip() and the test of line 378
MessageDropped(message) ==
    \/ message = NotString
    \/ LET text == Strip(IF message = None THEN <<>> ELSE message)
       IN  text = <<>> \/ Len(text) > MaxMessageLen

\* the label of the echo: f"{sender_name} (to {target_name})"
EchoLabel(sender_name, target_name) ==
    sender_name \o <<32, 40, 116, 111, 32>> \o target_name \o <<41>>

SendMessage(sid, target_sid, message) ==
    /\ conn[sid] = "open"
    /\ UNCHANGED threads
    /\ last' = Relayed("send_message", sid, target_sid, message)
    /\ UNCHANGED <<conn, connected_users, active_rooms, rooms, removed>>
    /\ IF target_sid = NotDict \/ MessageDropped(message)
       THEN sent' = <<>>
       ELSE LET text        == Strip(message)
                sender_name == NameOr(connected_users, sid, Anonymous)
            IN  IF TargetOnline(target_sid)
                THEN sent' =
                       << Ev("receive_message", ToRoom(rooms, target_sid),
                             [sender_sid |-> sid, sender_name |-> sender_name,
                              message |-> text, private |-> TRUE]),
                          Ev("receive_message", ToRoom(rooms, sid),
                             [sender_sid |-> sid,
                              sender_name |-> EchoLabel(sender_name,
                                                        connected_users[target_sid].name),
                              message |-> text, private |-> TRUE]) >>
                ELSE sent' =
                       << Ev("receive_message", ToAll,
                             [sender_sid |-> sid, sender_name |-> sender_name,
                              message |-> text, private |-> FALSE]) >>

\* a target an event may name: a connection id, none, "" or a malformed payload
TargetInputs == Sids \cup {None, <<>>, NotDict}

(***************************************************************************)
(* Specification of the registry and the relay.  The relay handlers read   *)
(* only the registry and the transport, so the call handlers are left out. *)
(***************************************************************************)
NextRelay ==
    \/ \E sid \in Sids : Connect(sid)
    \/ \E sid \in Sids, self_recv \in BOOLEAN : Disconnect(sid, self_recv)
    \/ \E sid \in Sids, name \in ProposedNames : Register(sid, name)
    \/ \E sid \in Sids : GetUsers(sid)
    \/ \E sid \in Sids, target_sid \in TargetInputs, offer \in Payloads :
          Offer(sid, target_sid, offer)
    \/ \E sid \in Sids, target_sid \in TargetInputs, answer \in Payloads :
          Answer(sid, target_sid, answer)
    \/ \E sid \in Sids, target_sid \in TargetInputs, candidate \in Payloads :
          IceCandidate(sid, target_sid, candidate)
    \/ \E sid \in Sids, target_sid \in TargetInputs, message \in Messages :
          SendMessage(sid, target_sid, message)

SpecRelay == Init /\ [][NextRelay]_vars

(***************************************************************************)
(* Vocabulary of the properties                                            *)
(***************************************************************************)
Participants(ar, room_id) == SeqRange(ar[room_id])

\* the positions of `out` that hold an event `ev` delivered to connection s
Received(out, ev, s) == { i \in 1..Len(out) : out[i].ev = ev /\ s \in out[i].to }

\* every connection that receives an event `ev` of `out`
Receivers(out, ev) == UNION { out[i].to : i \in { j \in 1..Len(out) : out[j].ev = ev } }

Emitted(out, ev) == \E i \in 1..Len(out) : out[i].ev = ev

InSomeSession(ar, s) == \E room_id \in DOMAIN ar : s \in Participants(ar, room_id)

(***************************************************************************)
(* C1: a connection id is a participant of at most one session: the        *)
(* participant sets of any two distinct sessions of active_rooms are       *)
(* disjoint (so a call_user involving a busy connection creates nothing).  *)
(***************************************************************************)
C1_SessionsDisjoint ==
    \A r1 \in DOMAIN active_rooms : \A r2 \in DOMAIN active_rooms :
        r1 # r2 => Participants(active_rooms, r1) \cap Participants(active_rooms, r2) = {}

(***************************************************************************)
(* C2: a call_user that answers its caller with call_error leaves          *)
(* active_rooms as it was and delivers no incoming_call.                   *)
(***************************************************************************)
C2_CallErrorChangesNothing ==
    [][(last'.op = "call_user" /\ Emitted(sent', "call_error"))
          => (active_rooms' = active_rooms /\ ~Emitted(sent', "incoming_call"))]_vars

(***************************************************************************)
(* C3: once the disconnect of a connection has been processed, no session  *)
(* of active_rooms contains that connection.                               *)
(***************************************************************************)
C3_DisconnectedInNoSession ==
    last.op = "disconnect" => ~InSomeSession(active_rooms, last.sid)

(***************************************************************************)
(* C4: when a registered participant of a session disconnects, the other   *)
(* participant receives exactly one call_ended with reason disconnected,   *)
(* the disconnecting connection receives none, and the session is gone.    *)
(***************************************************************************)
DisconnectedEnds(out, s) ==
    { i \in Received(out, "call_ended", s) : out[i].d = [ender_name |-> out[i].d.ender_name,
                                                        reason |-> "disconnected"] }

C4_OtherGetsOneCallEnded ==
    [][\A room_id \in DOMAIN active_rooms :
          (/\ last'.op = "disconnect"
           /\ last'.sid \in DOMAIN connected_users
           /\ last'.sid \in Participants(active_rooms, room_id))
          => (/\ \A o \in Participants(active_rooms, room_id) \ {last'.sid} :
                    Cardinality(DisconnectedEnds(sent', o)) = 1
              /\ Received(sent', "call_ended", last'.sid) = {}
              /\ room_id \notin DOMAIN active_rooms')]_vars

(***************************************************************************)
(* C5: a disconnect processed right after a disconnect of the same         *)
(* connection changes neither connected_users nor active_rooms and emits   *)
(* nothing.                                                                *)
(***************************************************************************)
C5_DisconnectIdempotent ==
    [][(last.op = "disconnect" /\ last'.op = "disconnect" /\ last'.sid = last.sid)
          => (/\ connected_users' = connected_users
              /\ active_rooms' = active_rooms
              /\ sent' = <<>>)]_vars

\* the second of two disconnects of a connection whose first disconnect
\* unregistered it and ended its session (user_left, user_list, call_ended)
C5_Witness ==
    /\ last.op = "disconnect"
    /\ last.arg = <<3>>
    /\ sent = <<>>
    /\ \E room_id \in removed : \E o \in Sids : room_id = RoomId(last.sid, o)

(***************************************************************************)
(* C6: an accept_call from a connection that is not a participant of the   *)
(* named session delivers call_accepted to nobody.                         *)
(***************************************************************************)
C6_OnlyParticipantAccepts ==
    (/\ last.op = "accept_call"
     /\ last.arg \in DOMAIN active_rooms
     /\ last.sid \notin Participants(active_rooms, last.arg))
    => Receivers(sent, "call_accepted") = {}

(***************************************************************************)
(* C7: an accept_call naming the identifier of a removed session (one that *)
(* reject_call, end_call or a disconnect took out of active_rooms and that *)
(* is not in it now) delivers exactly one call_error, to the sender only,  *)
(* no call_accepted, and changes neither connected_users nor active_rooms. *)
(***************************************************************************)
C7_AcceptRemovedSession ==
    [][(/\ last'.op = "accept_call"
        /\ last'.arg \in removed
        /\ last'.arg \notin DOMAIN active_rooms)
          => (/\ Len(sent') = 1
              /\ sent'[1].ev = "call_error"
              /\ sent'[1].to = {last'.sid}
              /\ connected_users' = connected_users
              /\ active_rooms' = active_rooms)]_vars

\* an accept_call on a removed session, sent by a former participant
C7_Witness ==
    /\ last.op = "accept_call"
    /\ last.arg \in removed
    /\ last.arg \notin DOMAIN active_rooms
    /\ \E o \in Sids : last.arg = RoomId(last.sid, o)
    /\ Received(sent, "call_error", last.sid) # {}

(***************************************************************************)
(* C8: a reject_call naming a session of active_rooms removes the session  *)
(* and delivers call_rejected to the participant other than the rejecter   *)
(* and to nobody else, whoever the rejecter is (registered or not).        *)
(***************************************************************************)
C8_RejectRemovesAndNotifies ==
    [][(last'.op = "reject_call" /\ last'.arg \in DOMAIN active_rooms)
          => (/\ last'.arg \notin DOMAIN active_rooms'
              /\ Receivers(sent', "call_rejected") # {}
              /\ Receivers(sent', "call_rejected")
                    \subseteq Participants(active_rooms, last'.arg) \ {last'.sid}
              /\ last'.sid \in Participants(active_rooms, last'.arg)
                    => Receivers(sent', "call_rejected")
                          = Participants(active_rooms, last'.arg) \ {last'.sid})]_vars

(***************************************************************************)
(* C9: an end_call naming a session of active_rooms delivers call_ended to *)
(* both participants and removes the session; an end_call naming no        *)
(* session emits nothing and changes no state.                             *)
(***************************************************************************)
C9_EndNotifiesBoth ==
    [][last'.op = "end_call"
          => IF last'.arg \in DOMAIN active_rooms
             THEN /\ \A o \in Participants(active_rooms, last'.arg) :
                        Received(sent', "call_ended", o) # {}
                  /\ last'.arg \notin DOMAIN active_rooms'
             ELSE /\ sent' = <<>>
                  /\ UNCHANGED <<conn, connected_users, active_rooms, rooms>>]_vars

(***************************************************************************)
(* C10: a send_message that carries a targetId reaches nobody but the      *)
(* target and the sender; a message is broadcast (private = FALSE) only    *)
(* when the event carries no targetId.                                     *)
(***************************************************************************)
C10_TargetedMessageIsDirected ==
    (last.op = "send_message" /\ Truthy(last.arg) /\ last.arg # NotDict)
    => (/\ Receivers(sent, "receive_message") \subseteq {last.arg, last.sid}
        /\ \A i \in 1..Len(sent) : sent[i].d.private)

(***************************************************************************)
(* C11: an offer, answer or ice_candidate whose targetId is registered is  *)
(* delivered once, with its payload unchanged, to the target and to nobody *)
(* else; with a missing or unregistered targetId nothing is delivered.     *)
(* Either way connected_users and active_rooms are left unchanged.         *)
(***************************************************************************)
RelayOps == {"offer", "answer", "ice_candidate"}

PayloadOf(e) ==
    IF e.ev = "offer" THEN e.d.offer
    ELSE IF e.ev = "answer" THEN e.d.answer
    ELSE e.d.candidate

C11_RelayToTargetOnly ==
    [][last'.op \in RelayOps
          => (/\ connected_users' = connected_users
              /\ active_rooms' = active_rooms
              /\ IF last'.arg \in DOMAIN connected_users
                 THEN /\ Len(sent') = 1
                      /\ sent'[1].ev = last'.op
                      /\ sent'[1].to = {last'.arg}
                      /\ PayloadOf(sent'[1]) = last'.body
                 ELSE sent' = <<>>)]_vars

(***************************************************************************)
(* Specification of the room identifier alone: lines 189 and 195 applied   *)
(* to one pair of connection ids and then to another, for every two pairs  *)
(* of ids of up to MaxIdLen characters over "_" and "a".                   *)
(***************************************************************************)
MaxIdLen == 2

IdAlphabet == {95, 97}

IdStrings == UNION { [1..n -> IdAlphabet] : n \in 1..MaxIdLen }

\* <<caller_sid, target_sid>> that pass the test of line 184
IdPairs == { p \in IdStrings \X IdStrings : p[1] # p[2] }

IdInit ==
    /\ conn = [s \in Sids |-> "fresh"]
    /\ connected_users = EmptyDict
    /\ active_rooms = EmptyDict
    /\ rooms = {}
    /\ sent = <<>>
    /\ removed = {}
    /\ threads = <<>>
    /\ \E p \in IdPairs, q \in IdPairs : last = Event("pairs", p, q)

\* room_id = f"call_..."; active_rooms[room_id] = [caller_sid, target_sid]
StoreSession(ar, p) == Put(ar, RoomId(p[1], p[2]), <<p[1], p[2]>>)

StoreSessions ==
    /\ last.op = "pairs"
    /\ last' = Event("stored", last.sid, last.arg)
    /\ active_rooms' = StoreSession(StoreSession(active_rooms, last.sid), last.arg)
    /\ UNCHANGED <<conn, connected_users, rooms, sent, removed, threads>>

NextId == StoreSessions

SpecId == IdInit /\ [][NextId]_vars

(***************************************************************************)
(* C12: the session identifier is symmetric: the identifier computed when  *)
(* a calls b equals the one computed when b calls a, so both calls write   *)
(* the same key of active_rooms.                                           *)
(***************************************************************************)
C12_RoomIdSymmetric ==
    (last.op = "stored" /\ last.arg = <<last.sid[2], last.sid[1]>>)
    => (/\ RoomId(last.sid[1], last.sid[2]) = RoomId(last.sid[2], last.sid[1])
        /\ DOMAIN active_rooms = { RoomId(last.sid[1], last.sid[2]) }
        /\ active_rooms[RoomId(last.sid[1], last.sid[2])] = last.arg)

\* a called b and then b called a, with a the greater of the two ids
C12_Witness ==
    /\ last.op = "stored"
    /\ last.arg = <<last.sid[2], last.sid[1]>>
    /\ StrLess(last.sid[2], last.sid[1])
    /\ Cardinality(DOMAIN active_rooms) = 1

(***************************************************************************)
(* C19: the session identifier is injective on unordered pairs: two        *)
(* different pairs of connection ids never get the same identifier, so the *)
(* call of one pair never overwrites the session of another pair.          *)
(***************************************************************************)
C19_RoomIdInjective ==
    (last.op = "stored" /\ {last.sid[1], last.sid[2]} # {last.arg[1], last.arg[2]})
    => (/\ RoomId(last.sid[1], last.sid[2]) # RoomId(last.arg[1], last.arg[2])
        /\ Cardinality(DOMAIN active_rooms) = 2)

(***************************************************************************)
(* C15: after a register event with any proposed name (absent, empty,      *)
(* blank, too long, not a string) connected_users holds an entry for the   *)
(* connection whose name is the trimmed proposal when that has 1 to 30     *)
(* characters and "Anonymous" otherwise, replacing any earlier name; so    *)
(* every name of the registry has 1 to 30 characters.                      *)
(***************************************************************************)
ExpectedName(name) ==
    IF name \in {None, NotString} THEN Anonymous
    ELSE IF Len(Strip(name)) >= 1 /\ Len(Strip(name)) <= 30 THEN Strip(name)
    ELSE Anonymous

C15_RegisterStoresName ==
    [][(last'.op = "register" /\ last'.arg # NotDict)
          => (/\ last'.sid \in DOMAIN connected_users'
              /\ connected_users'[last'.sid].name = ExpectedName(last'.arg)
              /\ \A s \in DOMAIN connected_users' :
                    /\ Len(connected_users'[s].name) >= 1
                    /\ Len(connected_users'[s].name) <= 30
                    /\ s # last'.sid => /\ s \in DOMAIN connected_users
                                        /\ connected_users'[s] = connected_users[s])]_vars

(***************************************************************************)
(* C16: a successful register delivers user_joined to every other          *)
(* connection and not to the registrant, and after it a user_list holding  *)
(* the whole registry with the registrant; the disconnect of a registered  *)
(* connection delivers a user_list without that connection; the payload of *)
(* every user_list is the registry as it is when the handler emits it.     *)
(***************************************************************************)
RegistryEntries(cu) == { [name |-> cu[s].name, sid |-> s] : s \in DOMAIN cu }

C16_UserListFollowsRegistry ==
    [][/\ (last'.op = "register" /\ sent'[1].d.success)
            => (/\ Len(sent') = 3
                /\ sent'[2].ev = "user_joined"
                /\ sent'[2].to = Open \ {last'.sid}
                /\ sent'[3].ev = "user_list"
                /\ sent'[3].to = Open
                /\ \E e \in sent'[3].d.users : e.sid = last'.sid)
       /\ (last'.op = "disconnect" /\ last'.sid \in DOMAIN connected_users)
            => (/\ Emitted(sent', "user_list")
                /\ \A i \in 1..Len(sent') :
                      sent'[i].ev = "user_list"
                         => (/\ \A e \in sent'[i].d.users : e.sid # last'.sid
                             /\ Open \ {last'.sid} \subseteq sent'[i].to))
       /\ \A i \in 1..Len(sent') :
              sent'[i].ev = "user_list"
                 => sent'[i].d.users = RegistryEntries(connected_users')]_vars

\* a second connection registers while a registered one is connected
C16_Witness ==
    /\ last.op = "register"
    /\ Len(sent) = 3
    /\ sent[2].to # {}
    /\ Cardinality(sent[3].d.users) = 2

(***************************************************************************)
(* C17: every session of active_rooms has exactly two participants, and    *)
(* they are two distinct connection ids.                                   *)
(***************************************************************************)
C17_TwoDistinctParticipants ==
    \A room_id \in DOMAIN active_rooms :
        /\ Len(active_rooms[room_id]) = 2
        /\ active_rooms[room_id][1] # active_rooms[room_id][2]
        /\ Participants(active_rooms, room_id) \subseteq Sids

\* a registered connection in a session has just tried to call itself
C17_Witness ==
    /\ last.op = "call_user"
    /\ last.arg = last.sid
    /\ last.sid \in DOMAIN connected_users
    /\ InSomeSession(active_rooms, last.sid)

(***************************************************************************)
(* C18: accept_call leads out of Ringing only: an accept_call on a session *)
(* that the event just before it already accepted delivers no second       *)
(* call_accepted.                                                          *)
(***************************************************************************)
C18_AcceptedOnce ==
    [][(/\ last.op = "accept_call"
        /\ Emitted(sent, "call_accepted")
        /\ last'.op = "accept_call"
        /\ last'.arg = last.arg)
          => ~Emitted(sent', "call_accepted")]_vars

NumThreads == 2

Tids == 1..NumThreads

Idle ==
    [pc |-> "idle", op |-> "none", sid |-> None, arg |-> None,
     out |-> <<>>, n |-> 0, todo |-> <<>>, overlap |-> FALSE]

Running(t) == threads[t].pc \notin {"idle", "done"}

\* every connection is connected, some are registered, nobody is in a call
ConcInit ==
    /\ conn = [s \in Sids |-> "open"]
    /\ \E R \in SUBSET Sids :
          connected_users = [s \in R |-> [name |-> DisplayName(PaddedName), sid |-> s]]
    /\ active_rooms = EmptyDict
    /\ rooms = {}
    /\ sent = <<>>
    /\ last = Event("init", None, None)
    /\ removed = {}
    /\ threads = [t \in Tids |-> Idle]

Step(t, rec) ==
    /\ threads' = [threads EXCEPT ![t] = rec]
    /\ UNCHANGED <<sent, last>>

\* the handler returns, or an exception leaves it
Finish(t, rec) ==
    /\ threads' = [threads EXCEPT ![t] = [rec EXCEPT !.pc = "done"]]
    /\ sent' = rec.out
    /\ last' = Event(rec.op, rec.sid, rec.arg)

StartCallUser(t, caller_sid, target_sid) ==
    /\ threads[t].pc = "idle"
    /\ conn[caller_sid] = "open"
    /\ Step(t, [Idle EXCEPT !.pc = "L180", !.op = "call_user", !.sid = caller_sid,
                            !.arg = target_sid,
                            !.overlap = \E u \in Tids : Running(u)])
    /\ UNCHANGED <<conn, connected_users, active_rooms, rooms, removed>>

\* lines 180-186
CallCheck(t) ==
    LET th == threads[t] IN
    /\ th.pc = "L180"
    /\ IF CallRefusal(th.sid, th.arg) # "none"
       THEN Finish(t, [th EXCEPT !.out = << CallError(th.sid, CallRefusal(th.sid, th.arg)) >>])
       ELSE Step(t, [th EXCEPT !.pc = "L192"])
    /\ UNCHANGED <<conn, connected_users, active_rooms, rooms, removed>>

\* lines 189-193: join_room for both ids
CallJoin(t) ==
    LET th == threads[t] IN
    /\ th.pc = "L192"
    /\ rooms' = rooms \cup { <<RoomId(th.sid, th.arg), s>> : s \in {th.sid, th.arg} \cap Open }
    /\ Step(t, [th EXCEPT !.pc = "L195"])
    /\ UNCHANGED <<conn, connected_users, active_rooms, removed>>

\* line 195
CallStore(t) ==
    LET th == threads[t] IN
    /\ th.pc = "L195"
    /\ active_rooms' = Put(active_rooms, RoomId(th.sid, th.arg), <<th.sid, th.arg>>)
    /\ Step(t, [th EXCEPT !.pc = "L197"])
    /\ UNCHANGED <<conn, connected_users, rooms, removed>>

\* lines 197-218: the two name lookups, then the emits or the except branch
CallNotify(t) ==
    LET th == threads[t] IN
    /\ th.pc = "L197"
    /\ IF {th.sid, th.arg} \subseteq DOMAIN connected_users
       THEN Finish(t, [th EXCEPT !.out =
                 << Ev("incoming_call", ToRoom(rooms, th.arg),
                       [caller_sid |-> th.sid,
                        caller_name |-> connected_users[th.sid].name,
                        room_id |-> RoomId(th.sid, th.arg)]),
                    Ev("call_initiated", ToSelf(th.sid),
                       [target_sid |-> th.arg,
                        target_name |-> connected_users[th.arg].name,
                        room_id |-> RoomId(th.sid, th.arg)]) >>])
       ELSE Finish(t, [th EXCEPT !.out = << CallError(th.sid, "KeyError") >>])
    /\ UNCHANGED <<conn, connected_users, active_rooms, rooms, removed>>

StartDisconnect(t, sid) ==
    /\ threads[t].pc = "idle"
    /\ conn[sid] = "open"
    /\ conn' = [conn EXCEPT ![sid] = "closed"]
    /\ Step(t, [Idle EXCEPT !.pc = "L82", !.op = "disconnect", !.sid = sid,
                            !.overlap = \E u \in Tids : Running(u)])
    /\ UNCHANGED <<connected_users, active_rooms, rooms, removed>>

\* the transport drops the connection from its rooms when the handler is over
DisconnectEnds(t, rec) ==
    /\ Finish(t, rec)
    /\ rooms' = { p \in rooms : p[2] # rec.sid }

\* lines 82-90
DisconnectUnregister(t) ==
    LET th == threads[t] IN
    /\ th.pc = "L82"
    /\ IF DisconnectGuard(th.sid)
       THEN /\ connected_users' = Unregister(connected_users, th.sid)
            /\ Step(t, [th EXCEPT !.pc = "L155",
                                  !.out = << Ev("user_left", ToOthers(th.sid),
                                                [name |-> connected_users[th.sid].name,
                                                 sid |-> th.sid]) >>])
            /\ UNCHANGED rooms
       ELSE /\ DisconnectEnds(t, th)
            /\ UNCHANGED connected_users
    /\ UNCHANGED <<conn, active_rooms, removed>>

\* lines 155-157: the iteration over connected_users begins
UserListBegin(t) ==
    LET th == threads[t] IN
    /\ th.pc = "L155"
    /\ Step(t, [th EXCEPT !.pc = "L157", !.n = Cardinality(DOMAIN connected_users)])
    /\ UNCHANGED <<conn, connected_users, active_rooms, rooms, removed>>

\* lines 155-165: the iteration ends, user_list is broadcast
UserListEnd(t) ==
    LET th == threads[t] IN
    /\ th.pc = "L157"
    /\ IF Cardinality(DOMAIN connected_users) # th.n
       THEN DisconnectEnds(t, th)
       ELSE /\ Step(t, [th EXCEPT !.pc = "L428",
                                  !.out = @ \o << Ev("user_list", ToOthers(th.sid),
                                                     [users |-> UserList(connected_users)]) >>])
            /\ UNCHANGED rooms
    /\ UNCHANGED <<conn, connected_users, active_rooms, removed>>

\* line 428: the iteration over active_rooms begins
ScanBegin(t) ==
    LET th == threads[t] IN
    /\ th.pc = "L428"
    /\ Step(t, [th EXCEPT !.pc = "L429", !.n = Cardinality(DOMAIN active_rooms)])
    /\ UNCHANGED <<conn, connected_users, active_rooms, rooms, removed>>

\* lines 428-430: the iteration ends with rooms_to_cleanup
ScanEnd(t) ==
    LET th == threads[t] IN
    /\ th.pc = "L429"
    /\ IF Cardinality(DOMAIN active_rooms) # th.n
       THEN DisconnectEnds(t, th)
       ELSE /\ Step(t, [th EXCEPT !.pc = "L432",
                                  !.todo = RoomsToCleanup(active_rooms, th.sid)])
            /\ UNCHANGED rooms
    /\ UNCHANGED <<conn, connected_users, active_rooms, removed>>

\* lines 432-440 for the next room of rooms_to_cleanup
CleanupNext(t) ==
    LET th == threads[t] IN
    /\ th.pc = "L432"
    /\ IF th.todo = <<>> \/ Head(th.todo) \notin DOMAIN active_rooms
       THEN /\ DisconnectEnds(t, th)
            /\ UNCHANGED <<active_rooms, removed>>
       ELSE LET st == CleanupLoop(<<Head(th.todo)>>, th.sid, connected_users, St(th.out))
            IN  /\ active_rooms' = st.ar
                /\ rooms' = st.rm
                /\ removed' = st.rem
                /\ Step(t, [th EXCEPT !.out = st.out, !.todo = Tail(@)])
    /\ UNCHANGED <<conn, connected_users>>

NextConc ==
    \/ \E t \in Tids, caller_sid \in Sids, target_sid \in Sids :
          StartCallUser(t, caller_sid, target_sid)
    \/ \E t \in Tids : CallCheck(t)
    \/ \E t \in Tids : CallJoin(t)
    \/ \E t \in Tids : CallStore(t)
    \/ \E t \in Tids : CallNotify(t)
    \/ \E t \in Tids, sid \in Sids : StartDisconnect(t, sid)
    \/ \E t \in Tids : DisconnectUnregister(t)
    \/ \E t \in Tids : UserListBegin(t)
    \/ \E t \in Tids : UserListEnd(t)
    \/ \E t \in Tids : ScanBegin(t)
    \/ \E t \in Tids : ScanEnd(t)
    \/ \E t \in Tids : CleanupNext(t)

SpecConc == ConcInit /\ [][NextConc]_vars

AllDone == \A t \in Tids : threads[t].pc = "done"

Pair(t) == {threads[t].sid, threads[t].arg}

\* every handler is a call_user handler and all of them are for one pair
CallsForOnePair ==
    /\ threads # <<>>
    /\ \A t \in Tids : threads[t].op = "call_user"
    /\ \A t \in Tids, u \in Tids : Pair(t) = Pair(u)

(***************************************************************************)
(* C13: under any interleaving of concurrently running call_user handlers  *)
(* for the same pair of connections (a calls b while b calls a, or a calls *)
(* b twice), the session table ends with at most one session for that      *)
(* pair, and that session has participants {a, b}.                         *)
(***************************************************************************)
C13_OneSessionPerPair ==
    (AllDone /\ CallsForOnePair) =>
        /\ Cardinality(DOMAIN active_rooms) <= 1
        /\ \A room_id \in DOMAIN active_rooms :
              Participants(active_rooms, room_id) = Pair(1)

\* a calls b while b calls a, the handlers overlap, and one session is left
C13_Witness ==
    /\ AllDone /\ CallsForOnePair
    /\ \E t \in Tids, u \in Tids :
          /\ threads[t].sid = threads[u].arg
          /\ threads[t].arg = threads[u].sid
          /\ threads[t].sid # threads[t].arg
          /\ threads[u].overlap
    /\ Cardinality(DOMAIN active_rooms) = 1

\* the handler of a connection that was registered when it disconnected
DisconnectOf(t) ==
    /\ threads[t].op = "disconnect"
    /\ Emitted(threads[t].out, "user_left")

(***************************************************************************)
(* C14: each handler's check-and-update of the registry and session table  *)
(* is atomic with respect to other handlers: for every interleaving of a   *)
(* call_user handler (a calls b) with the disconnect handler of a or of b, *)
(* once both handlers have finished no session in the table contains the   *)
(* disconnected connection.  Taken for a connection that was registered    *)
(* when it disconnected, so that lines 83-96 are run for it.               *)
(***************************************************************************)
C14_NoSessionAfterDisconnect ==
    (threads # <<>> /\ AllDone) =>
        \A t \in Tids, u \in Tids :
            ( /\ threads[t].op = "call_user"
              /\ DisconnectOf(u)
              /\ threads[u].sid \in Pair(t) )
            => ~InSomeSession(active_rooms, threads[u].sid)

====
